---------------------------- MODULE Spec2Model ----------------------------
(***************************************************************************)
(* Model of exts/pegasus_isaac/pegasus_isaac/mavlink_interface.py:         *)
(* the MavlinkInterface bridge (sensor aggregation, connection lifecycle,  *)
(* heartbeat-wait thread and the mavlink_update scheduler thread).         *)
(*                                                                         *)
(* Two specifications share the variables:                                 *)
(*   SpecSensors  the update_*_data / send_*_msgs operations of one        *)
(*                object, called one after the other;                      *)
(*   Spec         start_stream / stop_stream, the heartbeat-wait threads   *)
(*                and the scheduler threads, interleaved.                  *)
(***************************************************************************)
EXTENDS Integers, Sequences, FiniteSets, TLC

(***************************************************************************)
(* Bounds of the model.                                                    *)
(***************************************************************************)
\* number of distinct samples a producer may hand to an update_*_data call
MaxSample == 2
\* number of start_stream calls that create threads
MaxStarts == 3
\* number of mavutil.mavlink_connection calls (the constructor's included)
MaxOpens == 2
\* the oldest age (seconds) of a recorded time that is told from older ones
MaxAge == 2
\* number of hil_gps_send calls that are counted
MaxGpsSends == 3
\* number of update_*_data calls the producer thread makes while the
\* scheduler thread is inside send_sensor_msgs
MaxUpdates == 2
\* number of recv_match calls of one poll_mavlink_messages that are counted
MaxRecvs == 2

(***************************************************************************)
(* SensorSource: the group codes of the fields_updated bitmask.            *)
(***************************************************************************)
ACCEL == 7
GYRO == 56
MAG == 448
BARO == 6656
DIFF_PRESS == 1024

\* `a | b` of Python on non-negative integers
RECURSIVE BitOr(_, _)
BitOr(a, b) ==
    IF a = 0 THEN b
    ELSE IF b = 0 THEN a
    ELSE (IF a % 2 = 1 \/ b % 2 = 1 THEN 1 ELSE 0) + 2 * BitOr(a \div 2, b \div 2)

\* int(x) of Python for a decimal x = n / 10: truncation toward zero.
\* Inputs that the code scales and truncates (data[...] * 10000000, * 1000,
\* * 100) are given with one more decimal digit than the wire keeps.
IntTrunc10(n) == IF n >= 0 THEN n \div 10 ELSE -((-n) \div 10)

VARIABLES
    \* ---- SensorMsg (self._sensor_data) and what went to the wire ----
    sensor_data,                \* the SensorMsg object
    hil_sensor,                 \* arguments of the last hil_sensor_send call
    hil_gps,                    \* arguments of the last hil_gps_send call
    touched,                    \* history: groups updated since the last send_sensor_msgs
    written,                    \* history: the sample last given to each update_*_data
    producer,                   \* the producer thread: where it is inside an update_*_data call
    drain,                      \* the scheduler thread: where it is inside send_sensor_msgs, its locals
    pending,                    \* history: per group, the newest completed update no mask reported yet
    \* ---- MavlinkInterface fields ----
    connection,                 \* self._connection: 0 is None, else a handle
    is_running,                 \* self._is_running
    enable_lockstep,            \* self._enable_lockstep
    received_first_imu,         \* self._received_first_imu
    received_first_actuator,    \* self._received_first_actuator
    received_imu,               \* self._received_imu
    received_actuator,          \* self._received_actuator
    received_first_hearbeat,    \* self._received_first_hearbeat
    last_heartbeat_sent_time,   \* self._last_heartbeat_sent_time
    update_thread,              \* self._update_thread: 0 is unset, else a Thread id
    \* ---- environment: wire, threads, clock ----
    open_attempts,              \* mavutil.mavlink_connection calls made so far
    closed,                     \* handles on which close() was called
    threads,                    \* Thread(target=self.mavlink_update) objects
    waiters,                    \* Thread(target=self.wait_for_first_hearbeat) objects
    stop_pc,                    \* where the caller is inside stop_stream
    last_call,                  \* history: outcome of the caller's last start/stop
    sent_on,                    \* history: frames the scheduler sent, per handle
    hb_seen                     \* history: handles on which the peer's heartbeat was observed

sensor_vars == <<sensor_data, hil_sensor, hil_gps, touched, written,
                 producer, drain, pending>>

race_vars == <<producer, drain, pending>>

flag_vars == <<received_first_imu, received_first_actuator, received_imu,
               received_actuator, received_first_hearbeat, last_heartbeat_sent_time>>

conn_vars == <<connection, open_attempts, closed>>

task_vars == <<update_thread, threads, waiters>>

vars == <<sensor_data, hil_sensor, hil_gps, touched, written,
          producer, drain, pending,
          connection, is_running, enable_lockstep,
          received_first_imu, received_first_actuator, received_imu,
          received_actuator, received_first_hearbeat, last_heartbeat_sent_time,
          update_thread, open_attempts, closed, threads, waiters, stop_pc,
          last_call, sent_on, hb_seen>>

None == 0

\* line 270: the heartbeat period, 1.0 second
HeartbeatPeriod == 1

(***************************************************************************)
(* Time. The code reads time.time() only to compare it with a time it      *)
(* recorded (line 270), so times are kept relative to the present: the     *)
(* present is always Now, and when a second passes every recorded time     *)
(* moves one second into the past, down to Now - MaxAge, where it stays.   *)
(* The value 0 of lines 109 and 226 is 1970 and stays 0.                   *)
(***************************************************************************)
Now == MaxAge + HeartbeatPeriod + 1

Older(t) == IF t = 0 \/ t <= Now - MaxAge THEN t ELSE t - 1

Samples == 1 .. MaxSample

(***************************************************************************)
(* SensorMsg.__init__                                                      *)
(***************************************************************************)
SensorMsgInit ==
    [ new_imu_data |-> FALSE,
      xacc |-> 0, yacc |-> 0, zacc |-> 0,
      xgyro |-> 0, ygyro |-> 0, zgyro |-> 0,
      new_bar_data |-> FALSE,
      abs_pressure |-> 0, pressure_alt |-> 0, temperature |-> 0,
      new_mag_data |-> FALSE,
      xmag |-> 0, ymag |-> 0, zmag |-> 0,
      new_press_data |-> FALSE,
      diff_pressure |-> 0,
      new_gps_data |-> FALSE,
      fix_type |-> 0,
      latitude_deg |-> -999, longitude_deg |-> -999, altitude |-> -999,
      eph |-> 1, epv |-> 1,
      velocity |-> 0, velocity_north |-> 0, velocity_east |-> 0, velocity_down |-> 0,
      cog |-> 0, satellites_visible |-> 0 ]

(***************************************************************************)
(* The dictionaries a producer passes to the update_*_data calls: sample k *)
(* of each sensor. Every field of a sample is a different number, so that  *)
(* a field taken from the wrong place or the wrong sample shows.           *)
(***************************************************************************)
ImuData(k) ==
    [ linear_acceleration |-> <<100 * k + 1, 100 * k + 2, 100 * k + 3>>,
      angular_velocity    |-> <<100 * k + 4, 100 * k + 5, 100 * k + 6>> ]

MagData(k) == [ magnetic_field |-> <<100 * k + 7, 100 * k + 8, 100 * k + 9>> ]

BarData(k) ==
    [ temperature |-> 100 * k + 10,
      absolute_pressure |-> 100 * k + 11,
      pressure_altitude |-> 100 * k + 12 ]

\* decimals in tenths of the wire unit (see IntTrunc10); sample 2 is negative
GpsData(k) ==
    LET s == IF k % 2 = 0 THEN -1 ELSE 1 IN
    [ fix_type |-> 30 + k,
      latitude |-> s * (4712 * 10 + k + 4),
      longitude |-> s * (853 * 10 + k + 5),
      altitude |-> s * (488 * 10 + k + 6),
      eph |-> 10 + k + 7,
      epv |-> 20 + k + 7,
      speed |-> 150 + k,
      velocity_north |-> s * (120 + k + 1),
      velocity_east |-> s * (90 + k + 2),
      velocity_down |-> s * (10 + k + 3),
      cog |-> 1800 + k + 4,
      sattelites_visible |-> 100 + k ]

\* what the fields hold before the first update (SensorMsg.__init__), as inputs
NeverWritten ==
    [ imu |-> [linear_acceleration |-> <<0, 0, 0>>, angular_velocity |-> <<0, 0, 0>>],
      mag |-> [magnetic_field |-> <<0, 0, 0>>],
      bar |-> [temperature |-> 0, absolute_pressure |-> 0, pressure_altitude |-> 0],
      gps |-> [fix_type |-> 0, latitude |-> -9990, longitude |-> -9990,
               altitude |-> -9990, eph |-> 10, epv |-> 10, speed |-> 0,
               velocity_north |-> 0, velocity_east |-> 0, velocity_down |-> 0,
               cog |-> 0, sattelites_visible |-> 0] ]

(***************************************************************************)
(* update_imu_data, update_gps_data, update_bar_data, update_mag_data      *)
(***************************************************************************)
SetImuFlag(sd) == [sd EXCEPT !.new_imu_data = TRUE]

SetMagFlag(sd) == [sd EXCEPT !.new_mag_data = TRUE]

SetBarFlag(sd) == [sd EXCEPT !.new_bar_data = TRUE]

update_imu_data(data) ==
    /\ sensor_data' = SetImuFlag(
           [sensor_data EXCEPT !.xacc = data.linear_acceleration[1],
                               !.yacc = data.linear_acceleration[2],
                               !.zacc = data.linear_acceleration[3],
                               !.xgyro = data.angular_velocity[1],
                               !.ygyro = data.angular_velocity[2],
                               !.zgyro = data.angular_velocity[3]])
    /\ touched' = touched \cup {"imu"}
    /\ written' = [written EXCEPT !.imu = data]
    /\ UNCHANGED <<hil_sensor, hil_gps, race_vars>>

update_gps_data(data) ==
    /\ sensor_data' =
           [sensor_data EXCEPT !.fix_type = IntTrunc10(data.fix_type),
                               !.latitude_deg = IntTrunc10(data.latitude),
                               !.longitude_deg = IntTrunc10(data.longitude),
                               !.altitude = IntTrunc10(data.altitude),
                               !.eph = IntTrunc10(data.eph),
                               !.epv = IntTrunc10(data.epv),
                               !.velocity = IntTrunc10(data.speed),
                               !.velocity_north = IntTrunc10(data.velocity_north),
                               !.velocity_east = IntTrunc10(data.velocity_east),
                               !.velocity_down = IntTrunc10(data.velocity_down),
                               !.cog = IntTrunc10(data.cog),
                               !.satellites_visible = IntTrunc10(data.sattelites_visible),
                               !.new_gps_data = TRUE]
    /\ written' = [written EXCEPT !.gps = data]
    /\ UNCHANGED <<hil_sensor, hil_gps, touched, race_vars>>

update_bar_data(data) ==
    /\ sensor_data' = SetBarFlag(
           [sensor_data EXCEPT !.temperature = data.temperature,
                               !.abs_pressure = data.absolute_pressure,
                               !.pressure_alt = data.pressure_altitude])
    /\ touched' = touched \cup {"bar"}
    /\ written' = [written EXCEPT !.bar = data]
    /\ UNCHANGED <<hil_sensor, hil_gps, race_vars>>

update_mag_data(data) ==
    /\ sensor_data' = SetMagFlag(
           [sensor_data EXCEPT !.xmag = data.magnetic_field[1],
                               !.ymag = data.magnetic_field[2],
                               !.zmag = data.magnetic_field[3]])
    /\ touched' = touched \cup {"mag"}
    /\ written' = [written EXCEPT !.mag = data]
    /\ UNCHANGED <<hil_sensor, hil_gps, race_vars>>

(***************************************************************************)
(* send_sensor_msgs                                                        *)
(***************************************************************************)
NoSensorFrame ==
    [ sent |-> "never",
      xacc |-> 0, yacc |-> 0, zacc |-> 0, xgyro |-> 0, ygyro |-> 0, zgyro |-> 0,
      xmag |-> 0, ymag |-> 0, zmag |-> 0,
      abs_pressure |-> 0, diff_pressure |-> 0, pressure_alt |-> 0,
      temperature |-> 0, fields_updated |-> 0 ]

\* lines 345-365: the mask, group by group
ImuBits(sd, m) == IF sd.new_imu_data THEN BitOr(BitOr(m, ACCEL), GYRO) ELSE m

\* a send_sensor_msgs that leaves the magnetometer group out of the mask
MagBits_Skipped(sd, m) == m

MagBits(sd, m) == IF sd.new_mag_data THEN BitOr(m, MAG) ELSE m

BarBits(sd, m) == IF sd.new_bar_data THEN BitOr(m, BARO) ELSE m

PressBits(sd, m) == IF sd.new_press_data THEN BitOr(m, DIFF_PRESS) ELSE m

FieldsUpdated(sd) == PressBits(sd, BarBits(sd, MagBits(sd, ImuBits(sd, 0))))

\* lines 350, 355, 360, 365: each flag found set is cleared
\* a send_sensor_msgs that resets the IMU sample along with its flag
ClearSensorFlags_ResetsImu(sd) ==
    [sd EXCEPT !.new_imu_data = FALSE, !.new_mag_data = FALSE,
               !.new_bar_data = FALSE, !.new_press_data = FALSE,
               !.xacc = 0, !.yacc = 0, !.zacc = 0,
               !.xgyro = 0, !.ygyro = 0, !.zgyro = 0]

ClearSensorFlags(sd) ==
    [sd EXCEPT !.new_imu_data = IF @ THEN FALSE ELSE @,
               !.new_mag_data = IF @ THEN FALSE ELSE @,
               !.new_bar_data = IF @ THEN FALSE ELSE @,
               !.new_press_data = IF @ THEN FALSE ELSE @]

\* lines 368-384: the positional arguments of hil_sensor_send after the
\* timestamp, named as the MAVLink HIL_SENSOR message names them (the 14th is
\* its temperature field); the timestamp int(time.time()) is left out
SensorFrame(sd, mask) ==
    [ sent |-> "called",
      xacc |-> sd.xacc, yacc |-> sd.yacc, zacc |-> sd.zacc,
      xgyro |-> sd.xgyro, ygyro |-> sd.ygyro, zgyro |-> sd.zgyro,
      xmag |-> sd.xmag, ymag |-> sd.ymag, zmag |-> sd.zmag,
      abs_pressure |-> sd.abs_pressure, diff_pressure |-> sd.diff_pressure,
      pressure_alt |-> sd.pressure_alt,
      temperature |-> sd.altitude,
      fields_updated |-> mask ]

\* What a send call on self._connection does. On None the attribute lookup
\* raises; on a closed handle the transport raises or drops the frame; on an
\* open handle the transport delivers the frame or raises.
SendOutcome(raises) ==
    IF connection = None THEN "raised"
    ELSE IF raises THEN "raised"
    ELSE IF connection \in closed THEN "dropped"
    ELSE "delivered"

RecordSent(kind, outcome) ==
    IF outcome = "delivered" THEN sent_on \cup {<<connection, kind>>} ELSE sent_on

\* the try/except of lines 367-386 swallows every exception of the send
send_sensor_msgs(raises) ==
    LET mask == FieldsUpdated(sensor_data)
        outcome == SendOutcome(raises)
    IN /\ sensor_data' = ClearSensorFlags(sensor_data)
       /\ hil_sensor' = SensorFrame(sensor_data, mask)
       /\ sent_on' = RecordSent("sensor", outcome)
       /\ touched' = {}
       /\ UNCHANGED <<hil_gps, written, race_vars>>

(***************************************************************************)
(* send_gps_msgs                                                           *)
(***************************************************************************)
\* seq: the ordinal of the hil_gps_send call the arguments were passed to
NoGpsFrame ==
    [ sent |-> "never", seq |-> 0, fix_type |-> 0, lat |-> 0, lon |-> 0,
      alt |-> 0, eph |-> 0, epv |-> 0, vel |-> 0, vn |-> 0, ve |-> 0, vd |-> 0,
      cog |-> 0, satellites_visible |-> 0 ]

GpsFrame(sd) ==
    [ sent |-> "called", seq |-> hil_gps.seq + 1, fix_type |-> sd.fix_type,
      lat |-> sd.latitude_deg, lon |-> sd.longitude_deg, alt |-> sd.altitude,
      eph |-> sd.eph, epv |-> sd.epv, vel |-> sd.velocity,
      vn |-> sd.velocity_north, ve |-> sd.velocity_east, vd |-> sd.velocity_down,
      cog |-> sd.cog, satellites_visible |-> sd.satellites_visible ]

\* a send_gps_msgs without the check of lines 396-397
send_gps_msgs_unconditional(raises) ==
    LET outcome == SendOutcome(raises)
    IN /\ hil_gps.seq < MaxGpsSends
       /\ sensor_data' = [sensor_data EXCEPT !.new_gps_data = FALSE]
       /\ hil_gps' = GpsFrame(sensor_data)
       /\ sent_on' = RecordSent("gps", outcome)
       /\ UNCHANGED <<hil_sensor, touched, written, race_vars>>

\* lines 396-419; the try/except of lines 402-419 swallows every exception
\* of the send
send_gps_msgs(raises) ==
    IF ~sensor_data.new_gps_data
    THEN UNCHANGED <<sensor_data, hil_sensor, hil_gps, touched, written, race_vars, sent_on>>
    ELSE LET outcome == SendOutcome(raises)
         IN /\ hil_gps.seq < MaxGpsSends
            /\ sensor_data' = [sensor_data EXCEPT !.new_gps_data = FALSE]
            /\ hil_gps' = GpsFrame(sensor_data)
            /\ sent_on' = RecordSent("gps", outcome)
            /\ UNCHANGED <<hil_sensor, touched, written, race_vars>>

(***************************************************************************)
(* The same calls statement by statement, for a producer thread that is    *)
(* inside an update_*_data call while the scheduler thread is inside       *)
(* send_sensor_msgs: no lock guards self._sensor_data, so every attribute  *)
(* store and load is a step of its own.                                    *)
(***************************************************************************)
Groups == {"imu", "mag", "bar"}

ProducerIdle(n) == [op |-> "idle", k |-> 0, step |-> 0, n |-> n]

NothingPending == [imu |-> 0, mag |-> 0, bar |-> 0]

\* covering: history, per group the update this call took the flag of
DrainIdle == [pc |-> "idle", i |-> 0, mask |-> 0, args |-> NoSensorFrame,
              covering |-> NothingPending]

\* the attribute stores of an update_*_data call, in the order of the code
WritesOf(op, k) ==
    CASE op = "imu" ->
           LET d == ImuData(k) IN
           << <<"xacc", d.linear_acceleration[1]>>, <<"yacc", d.linear_acceleration[2]>>,
              <<"zacc", d.linear_acceleration[3]>>, <<"xgyro", d.angular_velocity[1]>>,
              <<"ygyro", d.angular_velocity[2]>>, <<"zgyro", d.angular_velocity[3]>>,
              <<"new_imu_data", TRUE>> >>
      [] op = "gps" ->
           LET d == GpsData(k) IN
           << <<"fix_type", IntTrunc10(d.fix_type)>>,
              <<"latitude_deg", IntTrunc10(d.latitude)>>,
              <<"longitude_deg", IntTrunc10(d.longitude)>>,
              <<"altitude", IntTrunc10(d.altitude)>>,
              <<"eph", IntTrunc10(d.eph)>>, <<"epv", IntTrunc10(d.epv)>>,
              <<"velocity", IntTrunc10(d.speed)>>,
              <<"velocity_north", IntTrunc10(d.velocity_north)>>,
              <<"velocity_east", IntTrunc10(d.velocity_east)>>,
              <<"velocity_down", IntTrunc10(d.velocity_down)>>,
              <<"cog", IntTrunc10(d.cog)>>,
              <<"satellites_visible", IntTrunc10(d.sattelites_visible)>>,
              <<"new_gps_data", TRUE>> >>
      [] op = "bar" ->
           LET d == BarData(k) IN
           << <<"temperature", d.temperature>>, <<"abs_pressure", d.absolute_pressure>>,
              <<"pressure_alt", d.pressure_altitude>>, <<"new_bar_data", TRUE>> >>
      [] op = "mag" ->
           LET d == MagData(k) IN
           << <<"xmag", d.magnetic_field[1]>>, <<"ymag", d.magnetic_field[2]>>,
              <<"zmag", d.magnetic_field[3]>>, <<"new_mag_data", TRUE>> >>

\* the producer calls update_<op>_data with its next sample
update_data_call(op) ==
    /\ producer.op = "idle"
    /\ producer.n < MaxUpdates
    /\ producer' = [op |-> op, k |-> producer.n + 1, step |-> 1, n |-> producer.n + 1]
    /\ UNCHANGED <<sensor_data, hil_sensor, hil_gps, touched, written, drain, pending>>

\* one attribute store of the call; the last one sets the flag and returns
update_data_store ==
    /\ producer.op # "idle"
    /\ LET ws == WritesOf(producer.op, producer.k)
           w == ws[producer.step]
           last == producer.step = Len(ws)
       IN /\ sensor_data' = [sensor_data EXCEPT ![w[1]] = w[2]]
          /\ producer' = IF last THEN ProducerIdle(producer.n)
                         ELSE [producer EXCEPT !.step = @ + 1]
          /\ pending' = IF last /\ producer.op \in Groups
                        THEN [pending EXCEPT ![producer.op] = producer.k]
                        ELSE pending
    /\ UNCHANGED <<hil_sensor, hil_gps, touched, written, drain>>

\* the flags of lines 347, 352, 357, 362 with the codes they stand for
DrainFlags ==
    << [group |-> "imu", flag |-> "new_imu_data", code |-> BitOr(ACCEL, GYRO)],
       [group |-> "mag", flag |-> "new_mag_data", code |-> MAG],
       [group |-> "bar", flag |-> "new_bar_data", code |-> BARO],
       [group |-> "press", flag |-> "new_press_data", code |-> DIFF_PRESS] >>

\* lines 370-382: the arguments of hil_sensor_send after the timestamp, each
\* with the attribute it is loaded from, in the order they are evaluated
DrainArgs ==
    << <<"xacc", "xacc">>, <<"yacc", "yacc">>, <<"zacc", "zacc">>,
       <<"xgyro", "xgyro">>, <<"ygyro", "ygyro">>, <<"zgyro", "zgyro">>,
       <<"xmag", "xmag">>, <<"ymag", "ymag">>, <<"zmag", "zmag">>,
       <<"abs_pressure", "abs_pressure">>, <<"diff_pressure", "diff_pressure">>,
       <<"pressure_alt", "pressure_alt">>, <<"temperature", "altitude">> >>

\* line 345
send_sensor_msgs_call ==
    /\ drain.pc = "idle"
    /\ drain' = [DrainIdle EXCEPT !.pc = "test", !.i = 1]
    /\ UNCHANGED <<sensor_data, hil_sensor, hil_gps, touched, written, producer,
                   pending, sent_on>>

\* a send_sensor_msgs that goes on to clear a flag it found false
send_sensor_msgs_test_clears_anyway ==
    /\ drain.pc = "test"
    /\ LET f == DrainFlags[drain.i]
       IN drain' = IF sensor_data[f.flag]
                   THEN [drain EXCEPT !.mask = BitOr(@, f.code), !.pc = "clear"]
                   ELSE [drain EXCEPT !.pc = "clear"]
    /\ UNCHANGED <<sensor_data, hil_sensor, hil_gps, touched, written, producer,
                   pending, sent_on>>

\* lines 347-349, 352-354, 357-359, 362-364: the flag is loaded and, when
\* set, its code is ORed into the local mask
send_sensor_msgs_test ==
    /\ drain.pc = "test"
    /\ LET f == DrainFlags[drain.i]
       IN drain' = IF sensor_data[f.flag]
                   THEN [drain EXCEPT !.mask = BitOr(@, f.code), !.pc = "clear"]
                   ELSE IF drain.i < Len(DrainFlags)
                   THEN [drain EXCEPT !.i = @ + 1]
                   ELSE [drain EXCEPT !.pc = "load", !.i = 1]
    /\ UNCHANGED <<sensor_data, hil_sensor, hil_gps, touched, written, producer,
                   pending, sent_on>>

\* lines 350, 355, 360, 365: the flag is stored false
send_sensor_msgs_clear ==
    /\ drain.pc = "clear"
    /\ LET f == DrainFlags[drain.i]
           next == IF drain.i < Len(DrainFlags)
                   THEN [drain EXCEPT !.pc = "test", !.i = @ + 1]
                   ELSE [drain EXCEPT !.pc = "load", !.i = 1]
       IN /\ sensor_data' = [sensor_data EXCEPT ![f.flag] = FALSE]
          /\ IF f.group \in Groups
             THEN /\ drain' = [next EXCEPT !.covering[f.group] = pending[f.group]]
                  /\ pending' = [pending EXCEPT ![f.group] = 0]
             ELSE /\ drain' = next
                  /\ pending' = pending
    /\ UNCHANGED <<hil_sensor, hil_gps, touched, written, producer, sent_on>>

\* lines 370-382: one argument is loaded
send_sensor_msgs_load ==
    /\ drain.pc = "load"
    /\ LET a == DrainArgs[drain.i]
       IN drain' = [drain EXCEPT !.args[a[1]] = sensor_data[a[2]],
                                 !.pc = IF drain.i < Len(DrainArgs) THEN "load" ELSE "send",
                                 !.i = IF drain.i < Len(DrainArgs) THEN @ + 1 ELSE 0]
    /\ UNCHANGED <<sensor_data, hil_sensor, hil_gps, touched, written, producer,
                   pending, sent_on>>

\* lines 368-386: the call of hil_sensor_send, any exception swallowed
send_sensor_msgs_send(raises) ==
    /\ drain.pc = "send"
    /\ hil_sensor' = [drain.args EXCEPT !.sent = "called", !.fields_updated = drain.mask]
    /\ sent_on' = RecordSent("sensor", SendOutcome(raises))
    /\ drain' = [DrainIdle EXCEPT !.pc = "sent", !.covering = drain.covering]
    /\ UNCHANGED <<sensor_data, hil_gps, touched, written, producer, pending>>

\* send_sensor_msgs returns to mavlink_update
send_sensor_msgs_return ==
    /\ drain.pc = "sent"
    /\ drain' = DrainIdle
    /\ UNCHANGED <<sensor_data, hil_sensor, hil_gps, touched, written, producer,
                   pending, sent_on>>

(***************************************************************************)
(* Threads. A Thread(target=self.mavlink_update) object is "unborn" until  *)
(* start_stream creates it, "new" until start() is called on it, then at   *)
(* a place of mavlink_update, and at last "done" (the loop ended) or       *)
(* "crashed" (an exception left mavlink_update). sent_hb and recvs are     *)
(* history: whether the tick called send_heartbeat, and how many           *)
(* recv_match calls its poll_mavlink_messages has made.                    *)
(***************************************************************************)
ThreadIds == 1 .. MaxStarts

AlivePcs == {"loop", "wait", "poll", "hb", "sensor", "sleep"}

IsAlive(t) == threads[t].pc \in AlivePcs

\* the id of the next Thread object start_stream creates (0: the bound is reached)
NextThread ==
    IF \E i \in ThreadIds : threads[i].pc = "unborn"
    THEN CHOOSE i \in ThreadIds :
             /\ threads[i].pc = "unborn"
             /\ \A j \in ThreadIds : threads[j].pc = "unborn" => i <= j
    ELSE 0

(***************************************************************************)
(* MavlinkInterface.__init__ (lines 68-109) called with enable_lockstep =  *)
(* lockstep, and the start of the world.                                   *)
(***************************************************************************)
\* a constructor that leaves the connection unopened until start_stream
InitWith_Unopened(lockstep) ==
    /\ sensor_data = SensorMsgInit
    /\ hil_sensor = NoSensorFrame
    /\ hil_gps = NoGpsFrame
    /\ touched = {}
    /\ written = NeverWritten
    /\ producer = ProducerIdle(0)
    /\ drain = DrainIdle
    /\ pending = NothingPending
    /\ connection = None
    /\ open_attempts = 0
    /\ closed = {}
    /\ is_running = FALSE
    /\ enable_lockstep = lockstep
    /\ received_first_imu = FALSE
    /\ received_first_actuator = FALSE
    /\ received_imu = FALSE
    /\ received_actuator = FALSE
    /\ received_first_hearbeat = FALSE
    /\ last_heartbeat_sent_time = 0
    /\ update_thread = 0
    /\ threads = [i \in ThreadIds |-> [pc |-> "unborn", sent_hb |-> FALSE, recvs |-> 0]]
    /\ waiters = [i \in ThreadIds |-> [pc |-> "unborn", conn |-> None]]
    /\ stop_pc = "idle"
    /\ last_call = "init"
    /\ sent_on = {}
    /\ hb_seen = {}

InitWith(lockstep) ==
    /\ sensor_data = SensorMsgInit
    /\ hil_sensor = NoSensorFrame
    /\ hil_gps = NoGpsFrame
    /\ touched = {}
    /\ written = NeverWritten
    /\ producer = ProducerIdle(0)
    /\ drain = DrainIdle
    /\ pending = NothingPending
    /\ connection = 1
    /\ open_attempts = 1
    /\ closed = {}
    /\ is_running = FALSE
    /\ enable_lockstep = lockstep
    /\ received_first_imu = FALSE
    /\ received_first_actuator = FALSE
    /\ received_imu = FALSE
    /\ received_actuator = FALSE
    /\ received_first_hearbeat = FALSE
    /\ last_heartbeat_sent_time = 0
    /\ update_thread = 0
    /\ threads = [i \in ThreadIds |-> [pc |-> "unborn", sent_hb |-> FALSE, recvs |-> 0]]
    /\ waiters = [i \in ThreadIds |-> [pc |-> "unborn", conn |-> None]]
    /\ stop_pc = "idle"
    /\ last_call = "init"
    /\ sent_on = {}
    /\ hb_seen = {}

\* enable_lockstep: bool = True, the default of line 68
Init == InitWith(TRUE)

(***************************************************************************)
(* re_initialize_interface (lines 208-226), once the connection is open    *)
(***************************************************************************)
\* a re_initialize_interface that tries to open a second time before it gives up
re_initialize_interface_retries ==
    /\ is_running' = FALSE
    /\ open_attempts' = open_attempts + 2
    /\ UNCHANGED <<connection, closed, flag_vars, task_vars>>

\* line 213 raises: lines 214-226 are not reached, nor is the rest of start_stream
re_initialize_interface_raises ==
    /\ is_running' = FALSE
    /\ open_attempts' = open_attempts + 1
    /\ UNCHANGED <<connection, closed, flag_vars, task_vars>>

\* a re_initialize_interface without lines 222-223
re_initialize_interface_keeps_heartbeat ==
    /\ connection' = open_attempts + 1
    /\ open_attempts' = open_attempts + 1
    /\ closed' = closed
    /\ received_first_imu' = FALSE
    /\ received_first_actuator' = FALSE
    /\ received_imu' = FALSE
    /\ received_actuator' = FALSE
    /\ received_first_hearbeat' = received_first_hearbeat
    /\ last_heartbeat_sent_time' = 0

re_initialize_interface ==
    /\ connection' = open_attempts + 1
    /\ open_attempts' = open_attempts + 1
    /\ closed' = closed
    /\ received_first_imu' = FALSE
    /\ received_first_actuator' = FALSE
    /\ received_imu' = FALSE
    /\ received_actuator' = FALSE
    /\ received_first_hearbeat' = FALSE
    /\ last_heartbeat_sent_time' = 0

(***************************************************************************)
(* start_stream (lines 173-190). open_ok: whether mavutil.mavlink_connection*)
(* opens the endpoint, should the call reach re_initialize_interface.      *)
(***************************************************************************)
\* a start_stream without the check of lines 176-177
AlreadyRunning_Unchecked == FALSE

\* line 176
AlreadyRunning == is_running = TRUE

\* line 195
AlreadyStopped == is_running = FALSE

start_stream(open_ok) ==
    /\ stop_pc = "idle"
    /\ IF AlreadyRunning
       THEN \* line 177: return
            /\ last_call' = "start_noop"
            /\ UNCHANGED <<is_running, flag_vars, conn_vars, task_vars>>
       ELSE IF connection = None /\ ~open_ok
       THEN /\ open_attempts < MaxOpens
            /\ re_initialize_interface_raises
            /\ last_call' = "start_raised"
       ELSE /\ NextThread # 0
            /\ connection = None => open_attempts < MaxOpens
            /\ IF connection = None
               THEN re_initialize_interface
               ELSE UNCHANGED <<conn_vars, flag_vars>>
            /\ is_running' = TRUE
            /\ update_thread' = NextThread
            /\ threads' = [threads EXCEPT ![NextThread].pc = "new"]
            /\ waiters' = [waiters EXCEPT ![NextThread].pc = "begin"]
            /\ last_call' = "start"
    /\ UNCHANGED <<sensor_vars, enable_lockstep, stop_pc, sent_on, hb_seen>>

(***************************************************************************)
(* stop_stream (lines 192-206), one step per blocking or visible effect    *)
(***************************************************************************)
\* lines 195-199
stop_stream_begin ==
    /\ stop_pc = "idle"
    /\ IF AlreadyStopped
       THEN /\ last_call' = "stop_noop"
            /\ UNCHANGED <<is_running, stop_pc>>
       ELSE /\ is_running' = FALSE
            /\ stop_pc' = "join"
            /\ last_call' = "stop_called"
    /\ UNCHANGED <<sensor_vars, enable_lockstep, flag_vars, conn_vars, task_vars, sent_on, hb_seen>>

\* a join that returns at once on a thread that was never started
stop_stream_join_passes_unstarted ==
    /\ stop_pc = "join"
    /\ ~IsAlive(update_thread)
    /\ stop_pc' = "close"
    /\ UNCHANGED <<sensor_vars, is_running, enable_lockstep, flag_vars, conn_vars,
                   task_vars, last_call, sent_on, hb_seen>>

\* line 202: Thread.join raises RuntimeError on a thread that was never
\* started, and otherwise returns once the thread is no longer alive
stop_stream_join ==
    /\ stop_pc = "join"
    /\ ~IsAlive(update_thread)
    /\ IF threads[update_thread].pc = "new"
       THEN stop_pc' = "idle" /\ last_call' = "stop_raised"
       ELSE stop_pc' = "close" /\ last_call' = last_call
    /\ UNCHANGED <<sensor_vars, is_running, enable_lockstep, flag_vars, conn_vars,
                   task_vars, sent_on, hb_seen>>

\* line 205
stop_stream_close ==
    /\ stop_pc = "close"
    /\ closed' = closed \cup {connection}
    /\ stop_pc' = "drop"
    /\ UNCHANGED <<sensor_vars, is_running, enable_lockstep, flag_vars, connection,
                   open_attempts, task_vars, last_call, sent_on, hb_seen>>

\* line 206
stop_stream_drop ==
    /\ stop_pc = "drop"
    /\ connection' = None
    /\ stop_pc' = "idle"
    /\ last_call' = "stop"
    /\ UNCHANGED <<sensor_vars, is_running, enable_lockstep, flag_vars, open_attempts,
                   closed, task_vars, sent_on, hb_seen>>

\* update_imu (lines 228-229)
update_imu ==
    /\ received_imu' = TRUE
    /\ UNCHANGED <<sensor_vars, connection, is_running, enable_lockstep,
                   received_first_imu, received_first_actuator, received_actuator,
                   received_first_hearbeat, last_heartbeat_sent_time, update_thread,
                   open_attempts, closed, threads, waiters, stop_pc, last_call,
                   sent_on, hb_seen>>

(***************************************************************************)
(* wait_for_first_hearbeat (lines 231-248), run by the thread that         *)
(* start_stream spawns at line 190                                         *)
(***************************************************************************)
\* line 239, the call: self._connection is read, then the thread blocks in it
wait_for_first_hearbeat_begin(i) ==
    /\ waiters[i].pc = "begin"
    /\ waiters' = [waiters EXCEPT ![i] =
                       IF connection = None
                       THEN [pc |-> "raised", conn |-> None]
                       ELSE [pc |-> "wait_hb", conn |-> connection]]
    /\ UNCHANGED <<sensor_vars, connection, is_running, enable_lockstep, flag_vars,
                   update_thread, open_attempts, closed, threads, stop_pc, last_call, sent_on, hb_seen>>

\* line 239, the return: the peer's heartbeat arrives on the handle; on a
\* handle closed meanwhile the blocked receive raises
wait_heartbeat_returns(i) ==
    /\ waiters[i].pc = "wait_hb"
    /\ IF waiters[i].conn \in closed
       THEN /\ waiters' = [waiters EXCEPT ![i].pc = "raised"]
            /\ hb_seen' = hb_seen
       ELSE /\ waiters' = [waiters EXCEPT ![i].pc = "set_flag"]
            /\ hb_seen' = hb_seen \cup {waiters[i].conn}
    /\ UNCHANGED <<sensor_vars, connection, is_running, enable_lockstep, flag_vars,
                   update_thread, open_attempts, closed, threads, stop_pc, last_call, sent_on>>

\* lines 242-243
wait_for_first_hearbeat_set_flag(i) ==
    /\ waiters[i].pc = "set_flag"
    /\ received_first_hearbeat' = TRUE
    /\ waiters' = [waiters EXCEPT ![i].pc = "start_thread"]
    /\ UNCHANGED <<sensor_vars, connection, is_running, enable_lockstep,
                   received_first_imu, received_first_actuator, received_imu,
                   received_actuator, last_heartbeat_sent_time, update_thread,
                   open_attempts, closed, threads, stop_pc, last_call, sent_on,
                   hb_seen>>

\* line 248: Thread.start raises RuntimeError on a thread started before
wait_for_first_hearbeat_start_thread(i) ==
    /\ waiters[i].pc = "start_thread"
    /\ IF threads[update_thread].pc = "new"
       THEN /\ threads' = [threads EXCEPT ![update_thread].pc = "loop"]
            /\ waiters' = [waiters EXCEPT ![i].pc = "done"]
       ELSE /\ threads' = threads
            /\ waiters' = [waiters EXCEPT ![i].pc = "raised"]
    /\ UNCHANGED <<sensor_vars, connection, is_running, enable_lockstep, flag_vars,
                   update_thread, open_attempts, closed, stop_pc, last_call,
                   sent_on, hb_seen>>

(***************************************************************************)
(* mavlink_update (lines 250-286), run by a scheduler thread t             *)
(***************************************************************************)
\* line 256
mavlink_update_loop(t) ==
    /\ threads[t].pc = "loop"
    /\ threads' = [threads EXCEPT ![t] =
                       [pc |-> IF is_running THEN "wait" ELSE "done", sent_hb |-> FALSE,
                        recvs |-> 0]]
    /\ UNCHANGED <<sensor_vars, connection, is_running, enable_lockstep, flag_vars,
                   update_thread, open_attempts, closed, waiters, stop_pc, last_call, sent_on, hb_seen>>

\* line 259: whether the tick enters the spin of lines 260-262
WaitsForImu == received_first_imu

\* lines 259-264: the spin holds the thread while it must wait, no IMU
\* sample was signalled and the loop runs; then received_imu is cleared
mavlink_update_wait(t) ==
    /\ threads[t].pc = "wait"
    /\ IF WaitsForImu /\ ~received_imu /\ is_running
       THEN UNCHANGED <<threads, received_imu>>
       ELSE /\ received_imu' = FALSE
            /\ threads' = [threads EXCEPT ![t].pc = "poll"]
    /\ UNCHANGED <<sensor_vars, connection, is_running, enable_lockstep,
                   received_first_imu, received_first_actuator, received_actuator,
                   received_first_hearbeat, last_heartbeat_sent_time, update_thread,
                   open_attempts, closed, waiters, stop_pc, last_call, sent_on,
                   hb_seen>>

\* What recv_match on self._connection does: on None the attribute lookup
\* raises, on a closed handle the transport raises or returns nothing
RecvRaises(raises) == connection = None \/ (connection \in closed /\ raises)

\* line 309: one more recv_match call made by this poll_mavlink_messages
CountRecv(n) == IF n < MaxRecvs THEN n + 1 ELSE n

\* a poll_mavlink_messages that waits for an actuator message whenever
\* lockstep is enabled, whether or not one was ever received
poll_mavlink_messages_waits_from_the_start(t, raises) ==
    /\ threads[t].pc = "poll"
    /\ IF received_first_hearbeat = FALSE
       THEN /\ threads' = [threads EXCEPT ![t].pc = "hb"]
            /\ UNCHANGED received_actuator
       ELSE LET needs_to_wait_for_actuator == enable_lockstep
            IN /\ received_actuator' = FALSE
               /\ threads' = [threads EXCEPT
                                  ![t].pc = IF RecvRaises(raises) THEN "crashed"
                                            ELSE IF ~needs_to_wait_for_actuator THEN "hb"
                                            ELSE "poll",
                                  ![t].recvs = CountRecv(@)]
    /\ UNCHANGED <<sensor_vars, connection, is_running, enable_lockstep,
                   received_first_imu, received_first_actuator, received_imu,
                   received_first_hearbeat, last_heartbeat_sent_time, update_thread,
                   open_attempts, closed, waiters, stop_pc, last_call, sent_on,
                   hb_seen>>

\* poll_mavlink_messages (lines 289-322), called at line 267. No message
\* type is decoded (lines 312-317 are comments), so received_actuator stays
\* false and the loop of line 306 ends only when nothing has to be waited for.
poll_mavlink_messages(t, raises) ==
    /\ threads[t].pc = "poll"
    /\ IF received_first_hearbeat = FALSE
       THEN \* line 297: return
            /\ threads' = [threads EXCEPT ![t].pc = "hb"]
            /\ UNCHANGED received_actuator
       ELSE LET needs_to_wait_for_actuator == received_first_actuator /\ enable_lockstep
            IN /\ received_actuator' = FALSE
               /\ threads' = [threads EXCEPT
                                  ![t].pc = IF RecvRaises(raises) THEN "crashed"
                                            ELSE IF ~needs_to_wait_for_actuator THEN "hb"
                                            ELSE "poll",
                                  ![t].recvs = CountRecv(@)]
    /\ UNCHANGED <<sensor_vars, connection, is_running, enable_lockstep,
                   received_first_imu, received_first_actuator, received_imu,
                   received_first_hearbeat, last_heartbeat_sent_time, update_thread,
                   open_attempts, closed, waiters, stop_pc, last_call, sent_on,
                   hb_seen>>

\* line 270
HeartbeatDue ==
    (Now - last_heartbeat_sent_time) > HeartbeatPeriod \/ received_first_hearbeat = FALSE

\* lines 270-272 with send_heartbeat (lines 324-336): nothing catches an
\* exception of heartbeat_send, which ends mavlink_update
mavlink_update_heartbeat(t, raises) ==
    /\ threads[t].pc = "hb"
    /\ IF HeartbeatDue
       THEN LET outcome == SendOutcome(raises)
            IN /\ sent_on' = RecordSent("heartbeat", outcome)
               /\ IF outcome = "raised"
                  THEN /\ threads' = [threads EXCEPT ![t] =
                                          [pc |-> "crashed", sent_hb |-> TRUE, recvs |-> 0]]
                       /\ UNCHANGED last_heartbeat_sent_time
                  ELSE /\ threads' = [threads EXCEPT ![t] =
                                          [pc |-> "sensor", sent_hb |-> TRUE, recvs |-> 0]]
                       /\ last_heartbeat_sent_time' = Now
       ELSE /\ threads' = [threads EXCEPT ![t].pc = "sensor", ![t].recvs = 0]
            /\ UNCHANGED <<sent_on, last_heartbeat_sent_time>>
    /\ UNCHANGED <<sensor_vars, connection, is_running, enable_lockstep,
                   received_first_imu, received_first_actuator, received_imu,
                   received_actuator, received_first_hearbeat, update_thread,
                   open_attempts, closed, waiters, stop_pc, last_call, hb_seen>>

\* lines 275-283: send_sensor_msgs; send_ground_truth and handle_control are empty
mavlink_update_sensors(t, raises) ==
    /\ threads[t].pc = "sensor"
    /\ send_sensor_msgs(raises)
    /\ threads' = [threads EXCEPT ![t] = [pc |-> "sleep", sent_hb |-> FALSE, recvs |-> 0]]
    /\ UNCHANGED <<connection, is_running, enable_lockstep, flag_vars, update_thread,
                   open_attempts, closed, waiters, stop_pc, last_call, hb_seen>>

\* line 286
mavlink_update_sleep(t) ==
    /\ threads[t].pc = "sleep"
    /\ threads' = [threads EXCEPT ![t].pc = "loop"]
    /\ UNCHANGED <<sensor_vars, connection, is_running, enable_lockstep, flag_vars,
                   update_thread, open_attempts, closed, waiters, stop_pc, last_call, sent_on, hb_seen>>

\* a second passes
clock_advances ==
    /\ last_heartbeat_sent_time' = Older(last_heartbeat_sent_time)
    /\ UNCHANGED <<sensor_vars, connection, is_running, enable_lockstep,
                   received_first_imu, received_first_actuator, received_imu,
                   received_actuator, received_first_hearbeat, update_thread,
                   open_attempts, closed, threads, waiters, stop_pc, last_call,
                   sent_on, hb_seen>>

(***************************************************************************)
(* The bridge with its threads: caller, producer, heartbeat-wait threads,  *)
(* scheduler threads and the clock, interleaved.                           *)
(***************************************************************************)
Next ==
    \/ \E open_ok \in BOOLEAN : start_stream(open_ok)
    \/ stop_stream_begin
    \/ stop_stream_join
    \/ stop_stream_close
    \/ stop_stream_drop
    \/ update_imu
    \/ \E i \in ThreadIds : wait_for_first_hearbeat_begin(i)
    \/ \E i \in ThreadIds : wait_heartbeat_returns(i)
    \/ \E i \in ThreadIds : wait_for_first_hearbeat_set_flag(i)
    \/ \E i \in ThreadIds : wait_for_first_hearbeat_start_thread(i)
    \/ \E t \in ThreadIds : mavlink_update_loop(t)
    \/ \E t \in ThreadIds : mavlink_update_wait(t)
    \/ \E t \in ThreadIds, raises \in BOOLEAN : poll_mavlink_messages(t, raises)
    \/ \E t \in ThreadIds, raises \in BOOLEAN : mavlink_update_heartbeat(t, raises)
    \/ \E t \in ThreadIds, raises \in BOOLEAN : mavlink_update_sensors(t, raises)
    \/ \E t \in ThreadIds : mavlink_update_sleep(t)
    \/ clock_advances

Spec == Init /\ [][Next]_vars

(***************************************************************************)
(* Scheduling. A thread that can take its next step takes it: the          *)
(* scheduler threads, the heartbeat-wait threads outside wait_heartbeat,   *)
(* and the caller while it is inside stop_stream. Nothing makes the peer   *)
(* send a heartbeat, the caller call, or the clock matter.                 *)
(***************************************************************************)
Fairness ==
    /\ WF_vars(stop_stream_join)
    /\ WF_vars(stop_stream_close)
    /\ WF_vars(stop_stream_drop)
    /\ \A i \in ThreadIds :
           /\ WF_vars(wait_for_first_hearbeat_begin(i))
           /\ WF_vars(wait_for_first_hearbeat_set_flag(i))
           /\ WF_vars(wait_for_first_hearbeat_start_thread(i))
    /\ \A t \in ThreadIds :
           /\ WF_vars(mavlink_update_loop(t))
           /\ WF_vars(mavlink_update_wait(t))
           /\ WF_vars(\E raises \in BOOLEAN : poll_mavlink_messages(t, raises))
           /\ WF_vars(\E raises \in BOOLEAN : mavlink_update_heartbeat(t, raises))
           /\ WF_vars(\E raises \in BOOLEAN : mavlink_update_sensors(t, raises))
           /\ WF_vars(mavlink_update_sleep(t))

SpecFair == Init /\ [][Next]_vars /\ Fairness

(***************************************************************************)
(* The sensor aggregation alone: one caller makes update_*_data and        *)
(* send_sensor_msgs calls, one after the other, on an object whose stream  *)
(* was never started.                                                      *)
(***************************************************************************)
lifecycle_vars == <<connection, is_running, enable_lockstep, flag_vars, update_thread,
                    open_attempts, closed, threads, waiters, stop_pc, last_call,
                    hb_seen>>

NextSensors ==
    \/ \E k \in Samples : update_imu_data(ImuData(k)) /\ UNCHANGED <<lifecycle_vars, sent_on>>
    \/ \E k \in Samples : update_mag_data(MagData(k)) /\ UNCHANGED <<lifecycle_vars, sent_on>>
    \/ \E k \in Samples : update_bar_data(BarData(k)) /\ UNCHANGED <<lifecycle_vars, sent_on>>
    \/ \E k \in Samples : update_gps_data(GpsData(k)) /\ UNCHANGED <<lifecycle_vars, sent_on>>
    \/ \E raises \in BOOLEAN : send_sensor_msgs(raises) /\ UNCHANGED lifecycle_vars

InitSensors == Init

SpecSensors == InitSensors /\ [][NextSensors]_vars

(***************************************************************************)
(* The GPS channel: one caller makes update_gps_data, update_imu_data,     *)
(* send_gps_msgs and send_sensor_msgs calls, one after the other, on an    *)
(* object whose stream was never started. last_call tells a send_gps_msgs  *)
(* that sent from one that returned at line 397.                           *)
(***************************************************************************)
gps_lifecycle_vars == <<connection, is_running, enable_lockstep, flag_vars, update_thread,
                        open_attempts, closed, threads, waiters, stop_pc, hb_seen>>

NextGps ==
    \/ \E k \in Samples :
           update_gps_data(GpsData(k)) /\ UNCHANGED <<lifecycle_vars, sent_on>>
    \/ \E k \in Samples :
           update_imu_data(ImuData(k)) /\ UNCHANGED <<lifecycle_vars, sent_on>>
    \/ \E raises \in BOOLEAN :
           /\ send_gps_msgs(raises)
           /\ last_call' = IF sensor_data.new_gps_data THEN "gps_sent" ELSE "gps_skipped"
           /\ UNCHANGED gps_lifecycle_vars
    \/ \E raises \in BOOLEAN : send_sensor_msgs(raises) /\ UNCHANGED lifecycle_vars

SpecGps == Init /\ [][NextGps]_vars

(***************************************************************************)
(* The producer thread inside update_*_data calls and the scheduler thread *)
(* inside send_sensor_msgs calls, interleaved statement by statement, on a *)
(* bridge with an open connection.                                         *)
(***************************************************************************)
NextRace ==
    \/ \E op \in {"imu", "mag", "bar", "gps"} :
           update_data_call(op) /\ UNCHANGED <<lifecycle_vars, sent_on>>
    \/ update_data_store /\ UNCHANGED <<lifecycle_vars, sent_on>>
    \/ send_sensor_msgs_call /\ UNCHANGED lifecycle_vars
    \/ send_sensor_msgs_test /\ UNCHANGED lifecycle_vars
    \/ send_sensor_msgs_clear /\ UNCHANGED lifecycle_vars
    \/ send_sensor_msgs_load /\ UNCHANGED lifecycle_vars
    \/ \E raises \in BOOLEAN : send_sensor_msgs_send(raises) /\ UNCHANGED lifecycle_vars
    \/ send_sensor_msgs_return /\ UNCHANGED lifecycle_vars

SpecRace == Init /\ [][NextRace]_vars

\* the bridge constructed with enable_lockstep=False
SpecNoLockstep == InitWith(FALSE) /\ [][Next]_vars

(***************************************************************************)
(*                              Properties                                 *)
(***************************************************************************)
\* a step that is one whole send_sensor_msgs call
DrainStep == \E raises \in BOOLEAN : send_sensor_msgs(raises)

\* the mask the groups of S stand for: IMU is ACCEL|GYRO = 0x3F, the
\* magnetometer 0x1C0, the barometer 0x1A00
TouchedMask(S) ==
    BitOr(BitOr(IF "imu" \in S THEN 63 ELSE 0, IF "mag" \in S THEN 448 ELSE 0),
          IF "bar" \in S THEN 6656 ELSE 0)

SensorFlagsClear(sd) ==
    /\ ~sd.new_imu_data
    /\ ~sd.new_mag_data
    /\ ~sd.new_bar_data
    /\ ~sd.new_press_data

\* C1: whatever update_imu_data, update_mag_data and update_bar_data calls
\* were made since the previous send_sensor_msgs (none of them running
\* during it), the mask send_sensor_msgs composes is the OR of the codes of
\* the groups updated since then, and all sensor dirty flags are false
\* right after it.
C1_DrainMaskIsOrOfTouchedGroups ==
    [][DrainStep =>
          /\ hil_sensor'.fields_updated = TouchedMask(touched)
          /\ SensorFlagsClear(sensor_data')]_vars

\* C1's case: IMU, magnetometer and barometer were all updated and then drained
C1_Witness ==
    /\ hil_sensor.sent = "called"
    /\ hil_sensor.fields_updated = 7167
    /\ touched = {}
    /\ SensorFlagsClear(sensor_data)

\* the payload arguments of a frame are the values last written: w is the
\* last input of each update_*_data call (diff_pressure has no update call)
FrameCarries(f, w) ==
    /\ f.xacc = w.imu.linear_acceleration[1]
    /\ f.yacc = w.imu.linear_acceleration[2]
    /\ f.zacc = w.imu.linear_acceleration[3]
    /\ f.xgyro = w.imu.angular_velocity[1]
    /\ f.ygyro = w.imu.angular_velocity[2]
    /\ f.zgyro = w.imu.angular_velocity[3]
    /\ f.xmag = w.mag.magnetic_field[1]
    /\ f.ymag = w.mag.magnetic_field[2]
    /\ f.zmag = w.mag.magnetic_field[3]
    /\ f.abs_pressure = w.bar.absolute_pressure
    /\ f.diff_pressure = 0
    /\ f.pressure_alt = w.bar.pressure_altitude
    /\ f.temperature = IntTrunc10(w.gps.altitude)

\* the stored values of a SensorMsg, its flags left aside
StoredValues(sd) ==
    [sd EXCEPT !.new_imu_data = FALSE, !.new_mag_data = FALSE, !.new_bar_data = FALSE,
               !.new_press_data = FALSE, !.new_gps_data = FALSE]

\* C2: a send_sensor_msgs with no sensor update since the previous one
\* composes mask 0, its payload still carries the values last written to
\* each channel, and it changes no stored value.
C2_IdleDrainKeepsValues ==
    [][(DrainStep /\ touched = {}) =>
          /\ hil_sensor'.fields_updated = 0
          /\ FrameCarries(hil_sensor', written)
          /\ StoredValues(sensor_data') = StoredValues(sensor_data)]_vars

\* C2's case: a frame with mask 0 that carries the second IMU sample and a
\* GPS altitude, which an earlier send_sensor_msgs had already reported
C2_Witness ==
    /\ hil_sensor.sent = "called"
    /\ hil_sensor.fields_updated = 0
    /\ hil_sensor.xacc = 201
    /\ hil_sensor.zmag = 109
    /\ hil_sensor.temperature # -999
    /\ touched = {}

\* a step that is one whole start_stream call
StartStep == \E open_ok \in BOOLEAN : start_stream(open_ok)

\* C3: a start_stream that follows a completed stop_stream (the handle was
\* dropped) and takes effect leaves the four lockstep flags and the
\* first-heartbeat flag false and holds a handle opened by this call: not
\* closed, and none of the handles opened before.
C3_RestartIsFresh ==
    [][(StartStep /\ connection = None /\ is_running') =>
          /\ ~received_first_imu'
          /\ ~received_first_actuator'
          /\ ~received_imu'
          /\ ~received_actuator'
          /\ ~received_first_hearbeat'
          /\ connection' # None
          /\ connection' \notin closed'
          /\ connection' \notin 1 .. open_attempts]_vars

\* C3's case: the bridge streamed (the heartbeat flag was set, a scheduler
\* ran and was joined), was stopped, and was started again
C3_Witness ==
    /\ last_call = "start"
    /\ is_running
    /\ connection = 2
    /\ 1 \in closed
    /\ 1 \in hb_seen
    /\ ~received_first_hearbeat

\* C4: start_stream on a running bridge and stop_stream on a bridge that
\* is not running change neither the running flag, the handle, the
\* lockstep and heartbeat flags nor any thread: none is created, started
\* or joined.
C4_RedundantCallsAreNoOps ==
    [][/\ (StartStep /\ is_running) =>
              UNCHANGED <<is_running, conn_vars, flag_vars, task_vars, stop_pc>>
       /\ (stop_stream_begin /\ ~is_running) =>
              UNCHANGED <<is_running, conn_vars, flag_vars, task_vars, stop_pc>>]_vars

\* C4's case: start_stream was called on a running bridge, and one
\* heartbeat-wait thread exists
C4_Witness ==
    /\ last_call = "start_noop"
    /\ is_running
    /\ Cardinality({i \in ThreadIds : waiters[i].pc # "unborn"}) = 1

\* C6: when the open of re_initialize_interface fails inside start_stream,
\* the call ends with the error (start_raised), one open was attempted, the
\* bridge is not running, holds no handle, and no thread was created or
\* started.
C6_FailedOpenLeavesBridgeStopped ==
    [][(start_stream(FALSE) /\ ~is_running /\ connection = None) =>
          /\ last_call' = "start_raised"
          /\ open_attempts' = open_attempts + 1
          /\ ~is_running'
          /\ connection' = None
          /\ UNCHANGED task_vars]_vars

\* C6's case: a restart whose open failed, after a scheduler had run
C6_Witness ==
    /\ last_call = "start_raised"
    /\ connection = None
    /\ ~is_running
    /\ \E t \in ThreadIds : threads[t].pc = "done"

\* C7: a stop_stream that found the bridge running clears the running flag,
\* waits for the scheduler thread to end, closes the connection and drops
\* the handle, in this order: it is past the join only with the running
\* flag false and the joined thread not alive; once it has returned the
\* running flag is false, the scheduler thread is not alive and no handle is
\* left; and the handle the bridge holds is never a closed one while a
\* scheduler thread is alive.
C7_StopJoinsThenCloses ==
    /\ stop_pc \in {"close", "drop"} => (~is_running /\ ~IsAlive(update_thread))
    /\ (stop_pc = "idle" /\ last_call = "stop") =>
           /\ ~is_running
           /\ ~IsAlive(update_thread)
           /\ connection = None
    /\ \A t \in ThreadIds : IsAlive(t) => connection \notin closed

\* C8: a scheduler thread that is at one of its two sends (the heartbeat
\* of lines 270-272, the sensor frame of line 275) is still in its loop
\* after the step, whatever the send did.
C8_SendFailureNeverEndsLoop ==
    [][\A t \in ThreadIds :
           threads[t].pc \in {"hb", "sensor"} => threads'[t].pc \in AlivePcs]_vars

\* the condition C9 gives for a heartbeat: more than 1.0 second since the
\* last one was sent, or none sent yet on this connection
C9_Due ==
    \/ (Now - last_heartbeat_sent_time) > 1
    \/ <<connection, "heartbeat">> \notin sent_on

\* C9: in every tick that reaches the cadence step, a heartbeat is sent and
\* the time of sending recorded if and only if more than 1.0 second has
\* passed since the last heartbeat was sent or none was sent yet on this
\* connection.
C9_HeartbeatIffDue ==
    [][\A t \in ThreadIds :
           (threads[t].pc = "hb" /\ threads'[t].pc # "hb") =>
               ((/\ <<connection, "heartbeat">> \in sent_on'
                 /\ threads'[t].sent_hb
                 /\ last_heartbeat_sent_time' = Now) <=> C9_Due)]_vars

\* C10: no frame, heartbeat or sensor, is sent on a handle before the
\* peer's first heartbeat was observed on that handle.
C10_NoFrameBeforePeerHeartbeat ==
    \A f \in sent_on : f[1] \in hb_seen

GpsDrainStep == \E raises \in BOOLEAN : send_gps_msgs(raises)

\* the arguments of a hil_gps_send call are the stored GPS values
GpsFrameCarries(f, sd) ==
    /\ f.fix_type = sd.fix_type
    /\ f.lat = sd.latitude_deg
    /\ f.lon = sd.longitude_deg
    /\ f.alt = sd.altitude
    /\ f.eph = sd.eph
    /\ f.epv = sd.epv
    /\ f.vel = sd.velocity
    /\ f.vn = sd.velocity_north
    /\ f.ve = sd.velocity_east
    /\ f.vd = sd.velocity_down
    /\ f.cog = sd.cog
    /\ f.satellites_visible = sd.satellites_visible

\* C12: send_gps_msgs with the GPS flag set makes one hil_gps_send call
\* with the stored GPS values and clears the flag, changing no stored
\* value; with the flag not set it makes no call and leaves the flag and
\* every stored value as they were. So the send_gps_msgs that follows one
\* that sent, with no update_gps_data in between, sends nothing: one
\* update and two drains make one frame.
C12_GpsDrainSendsOnlyIfDirty ==
    [][GpsDrainStep =>
          IF sensor_data.new_gps_data
          THEN /\ hil_gps'.seq = hil_gps.seq + 1
               /\ GpsFrameCarries(hil_gps', sensor_data)
               /\ ~sensor_data'.new_gps_data
               /\ StoredValues(sensor_data') = StoredValues(sensor_data)
          ELSE /\ UNCHANGED <<sensor_data, hil_gps, sent_on>>
               /\ (last_call = "gps_sent" => last_call' = "gps_skipped")]_vars

\* C12's case: update_gps_data with the second sample, a send_gps_msgs
\* that sent it, and a second send_gps_msgs that sent nothing
C12_Witness ==
    /\ last_call = "gps_skipped"
    /\ hil_gps.seq = 1
    /\ hil_gps.lat = -4712
    /\ ~sensor_data.new_gps_data
    /\ sent_on = {<<1, "gps">>}

\* the mask m has every bit of the code c
HasBits(m, c) == BitOr(m, c) = m

\* the update a stored or sent value of a group's field comes from: the
\* samples are numbered in the order the producer hands them over
SampleOf(v) == v \div 100

\* the arguments of hil_sensor_send that send_sensor_msgs loads from the
\* stored fields of a group
GroupArgs(g) ==
    CASE g = "imu" -> {"xacc", "yacc", "zacc", "xgyro", "ygyro", "zgyro"}
      [] g = "mag" -> {"xmag", "ymag", "zmag"}
      [] g = "bar" -> {"abs_pressure", "pressure_alt"}

GroupFlag(g) ==
    CASE g = "imu" -> "new_imu_data"
      [] g = "mag" -> "new_mag_data"
      [] g = "bar" -> "new_bar_data"

GroupCode(g) ==
    CASE g = "imu" -> 63
      [] g = "mag" -> 448
      [] g = "bar" -> 6656

\* C13: with update_*_data and send_sensor_msgs interleaved statement by
\* statement, (1) a completed update that no mask has reported yet leaves
\* its flag set, so no write is dropped; (2) a flag goes from set to clear
\* only in a send_sensor_msgs whose mask has the group's bits; (3) the
\* frame of a send_sensor_msgs that cleared a group's flag has the group's
\* bits in its mask and carries, in every field of the group, a value at
\* least as new as the newest update completed before the flag was cleared.
C13_NoUpdateLostByDrain ==
    /\ [](\A g \in Groups : pending[g] > 0 => sensor_data[GroupFlag(g)])
    /\ [][/\ \A g \in Groups :
                (sensor_data[GroupFlag(g)] /\ ~sensor_data'[GroupFlag(g)]) =>
                    (drain.pc = "clear" /\ HasBits(drain'.mask, GroupCode(g)))
          /\ (drain.pc = "send" /\ drain'.pc = "sent") =>
                (\A g \in Groups :
                    (drain.covering[g] > 0) =>
                        (/\ HasBits(hil_sensor'.fields_updated, GroupCode(g))
                         /\ \A a \in GroupArgs(g) :
                                SampleOf(hil_sensor'[a]) >= drain.covering[g]))]_vars

\* C13's case: a frame was sent that reports the first IMU update while the
\* producer is in the middle of a second one, one of whose values the
\* frame already carries
C13_Witness ==
    /\ drain.pc = "sent"
    /\ drain.covering["imu"] = 1
    /\ producer.op = "imu"
    /\ producer.k = 2
    /\ hil_sensor.xacc = 201
    /\ hil_sensor.zgyro = 106
    /\ HasBits(hil_sensor.fields_updated, 63)

\* C14: a scheduler thread that is alive while the running flag is false
\* eventually ends, wherever in its tick it is; and a scheduler thread
\* ends only at the loop test of line 256, with the running flag false.
C14_LoopEndsOnlyAndAlwaysOnStop ==
    /\ \A t \in ThreadIds : (~is_running /\ IsAlive(t)) ~> ~IsAlive(t)
    /\ [][\A t \in ThreadIds :
              (IsAlive(t) /\ ~IsAlive(t)') =>
                  (threads[t].pc = "loop" /\ threads'[t].pc = "done" /\ ~is_running)]_vars

\* the places of a tick in the order C15 gives them: the wait with the
\* clearing of received_imu, the wire poll, the cadence check, the sensor
\* send, the sleep, and back to the loop test
C15_TickOrder ==
    { <<"loop", "wait">>, <<"wait", "poll">>, <<"poll", "hb">>, <<"hb", "sensor">>,
      <<"sensor", "sleep">>, <<"sleep", "loop">> }

\* C15: a tick that the loop test of line 256 let in goes through the wait
\* (leaving received_imu false), the wire poll, the cadence check, the
\* sensor send and the sleep, in this order, and its sensor send makes one
\* hil_sensor_send call whose mask is the one the flags give, flags set or
\* not: no tick ends before its sensor frame.
C15_EveryTickSendsOneSensorFrame ==
    [][\A t \in ThreadIds :
           (IsAlive(t) /\ threads'[t].pc # threads[t].pc /\ threads'[t].pc # "done") =>
               /\ <<threads[t].pc, threads'[t].pc>> \in C15_TickOrder
               /\ threads[t].pc = "wait" => ~received_imu'
               /\ threads[t].pc = "sensor" =>
                      /\ hil_sensor'.sent = "called"
                      /\ hil_sensor'.fields_updated = FieldsUpdated(sensor_data)
               /\ threads[t].pc # "sensor" => hil_sensor' = hil_sensor]_vars

\* a step that is one receive of poll_mavlink_messages in thread t
PollStep(t) == \E raises \in BOOLEAN : poll_mavlink_messages(t, raises)

C18_OneSchedulerPerStart ==
    /\ [](Cardinality({t \in ThreadIds : IsAlive(t)}) <= 1)
    /\ [][\A i \in ThreadIds :
              (waiters[i].pc = "start_thread" /\ waiters'[i].pc # "start_thread") =>
                  /\ update_thread = i
                  /\ threads[i].pc = "new"
                  /\ threads'[i].pc = "loop"
                  /\ waiters'[i].pc = "done"]_vars

\* self._connection is a handle on which close() was not called
C19_HandleOpen == connection # None /\ connection \notin closed

\* thread t makes a step that calls recv_match, heartbeat_send or
\* hil_sensor_send on self._connection
C19_UsesConnection(t) ==
    /\ threads'[t] # threads[t]
    /\ \/ threads[t].pc = "poll" /\ received_first_hearbeat
       \/ threads[t].pc = "hb" /\ HeartbeatDue
       \/ threads[t].pc = "sensor"

\* C19: whenever a scheduler thread makes a receive or a send, and whenever
\* a heartbeat-wait thread calls wait_heartbeat or is blocked in it, the
\* handle it uses is present and was not closed.
C19_NoUseAfterClose ==
    /\ [](\A i \in ThreadIds : waiters[i].pc = "wait_hb" => waiters[i].conn \notin closed)
    /\ [][/\ \A t \in ThreadIds : C19_UsesConnection(t) => C19_HandleOpen
           /\ \A i \in ThreadIds :
                 (waiters[i].pc = "begin" /\ waiters'[i].pc # "begin") => C19_HandleOpen]_vars

\* the six accelerometer and gyroscope fields of a frame come from one
\* update_imu_data call (or all from SensorMsg.__init__)
C20_OneImuSample(f) ==
    \A a, b \in GroupArgs("imu") : SampleOf(f[a]) = SampleOf(f[b])

\* the bits of fields_updated that stand for a payload field's group
C20_ArgCode(a) ==
    IF a \in {"xacc", "yacc", "zacc"} THEN ACCEL
    ELSE IF a \in {"xgyro", "ygyro", "zgyro"} THEN GYRO
    ELSE IF a \in {"xmag", "ymag", "zmag"} THEN MAG
    ELSE IF a = "diff_pressure" THEN DIFF_PRESS
    ELSE BARO

C20_PayloadFields ==
    {"xacc", "yacc", "zacc", "xgyro", "ygyro", "zgyro", "xmag", "ymag", "zmag",
     "abs_pressure", "diff_pressure", "pressure_alt", "temperature"}

\* C20: with update_*_data and send_sensor_msgs interleaved statement by
\* statement, every frame sent carries accelerometer and gyroscope fields
\* of one single IMU sample, and a payload field that differs from the
\* frame sent before is reported by its group's bits in the mask.
C20_FramesMatchTheirMask ==
    [][(drain.pc = "send" /\ drain'.pc = "sent") =>
          /\ C20_OneImuSample(hil_sensor')
          /\ hil_sensor.sent = "called" =>
                 \A a \in C20_PayloadFields :
                     hil_sensor'[a] # hil_sensor[a] =>
                         HasBits(hil_sensor'.fields_updated, C20_ArgCode(a))]_vars

=============================================================================
